---- MODULE Spec2Model ----
(***************************************************************************)
(* A model of the plugin engine of go-plugin-engine: src/engine.go (the    *)
(* current declaration of package pluginengine, from line 448 on) and      *)
(* src/hostfuncs.go.                                                       *)
(*                                                                         *)
(* Pointers of the Go code are indices into heaps: plugs holds the plugin  *)
(* records, exts the extension records, insts the sandbox instances.       *)
(* Index 0 is the nil pointer.  A plugin record carries the fields the     *)
(* engine reads after addPlugin (Plugin, Resolved, LoadOnStart).           *)
(*                                                                         *)
(* The WASM sandbox is opaque: creating an instance succeeds or fails, an  *)
(* export returns bytes, nil or an error, and while it runs a plugin may   *)
(* call the host function CallExtension.  A Go panic inside a host         *)
(* function is recovered by the sandbox and ends the calling export with   *)
(* an error; a panic outside any export ends the process.                  *)
(***************************************************************************)
EXTENDS Naturals, Sequences, FiniteSets, TLC

VARIABLES
    plugs,              \* heap of plugin records (the *plugin values made by loadPluginManifests)
    exts,               \* heap of extension records (the *extension values made by addPlugin)
    insts,              \* heap of sandbox instances (the extism.Plugin values made by instantiate)
    plugins,            \* Engine.plugins: plugin id -> version -> *plugin
    extensionPoints,    \* Engine.extensionPoints: extension point id -> list of extension points
    extensions,         \* Engine.extensions: extension id -> *extension
    unresolved,         \* Engine.unresolved: list of *extension
    callableExtensions, \* the package variable callableExtensions: extension id -> *plugin
    stack,              \* the call stack of the single control thread
    result,             \* the outcome of the most recent public operation
    trace,              \* what the sandbox did during the most recent public operation
    nHostEPs,           \* number of RegisterHostExtensionPoint calls so far
    nCalls,             \* number of Start and CallExtensionFunc calls of the host application so far
    peer,               \* the fields of a second Engine value of the same process
    threads,            \* goroutines that call into the engine beside the control thread
    semver              \* a string given to isSemverValid and what it returned

vars == <<plugs, exts, insts, plugins, extensionPoints, extensions, unresolved,
          callableExtensions, stack, result, trace, nHostEPs, nCalls, peer, threads, semver>>

----------------------------------------------------------------------------
(* Bounds of the model *)

MaxAdds == 2        \* addPlugin calls
MaxHostEPs == 1     \* RegisterHostExtensionPoint calls
MaxCalls == 2       \* Start / CallExtensionFunc / projection calls made by the host application
MaxDepth == 4       \* frames on the call stack
MaxHostCalls == 1   \* host-function calls the plugins make during one public operation
MaxInsts == 2       \* sandbox instances created
MaxBundles == 2     \* plugin archives one Load finds
MaxPending == 2     \* extension records in a pending queue given to resolve
MaxVersionLen == 5  \* characters of a version string given to isSemverValid
MaxThreads == 2     \* goroutines that call into the engine beside the control thread

----------------------------------------------------------------------------
(* Values *)

NoBytes == "nil"                 \* a nil []byte
Bytes == {"b1", "b2"}            \* non-nil byte slices
NoErr == "nil"                   \* a nil error
CallErr == "PluginCallFailed"    \* the error an export call returns

PluginIds == {"A", "B", "C"}
ExtIds == {"e1", "e2", "e9"}     \* e9 is declared by no manifest
EpIds == {"x", "y"}

v100 == <<"1", ".", "0", ".", "0">>
v200 == <<"2", ".", "0", ".", "0">>
vBad == <<"1", ".", "0">>
Versions == {v100, v200, vBad}

Ext(id, ep, fn) == [Id |-> id, ExtensionPoint |-> ep, Func |-> fn]
Ep(id, ver) == [Id |-> id, Version |-> ver]
Manifest(id, ver, los, es, eps) ==
    [Id |-> id, Version |-> ver, LoadOnStart |-> los, Extensions |-> es, ExtensionPoints |-> eps]

\* The plugin manifests (gopdk.Plugin values) a Load can deliver to addPlugin.
Manifests ==
    { Manifest("A", v100, TRUE,  <<Ext("e1", "x", "f")>>, <<>>),
      Manifest("B", v100, FALSE, <<Ext("e2", "x", "g")>>, <<Ep("x", v100)>>),
      Manifest("B", v100, FALSE, <<Ext("e1", "x", "g"), Ext("e2", "y", "f")>>, <<Ep("x", v200)>>),
      Manifest("C", vBad, FALSE, <<Ext("e2", "x", "g")>>, <<>>),
      Manifest("C", v100, TRUE,  <<>>, <<>>) }

----------------------------------------------------------------------------
(* isSemverValid *)

\* unicode.IsDigit: the decimal digits of every script, not only 0-9.
AsciiDigits == {"0", "1", "2", "3", "4", "5", "6", "7", "8", "9"}
UnicodeDigits == AsciiDigits \cup {"u0663"}

RECURSIVE Split(_, _)
\* strings.Split(s, sep) for a one-character separator
Split(s, sep) ==
    IF \E i \in 1..Len(s) : s[i] = sep
    THEN LET i == CHOOSE i \in 1..Len(s) : s[i] = sep /\ \A j \in 1..(i-1) : s[j] # sep
         IN  <<SubSeq(s, 1, i-1)>> \o Split(SubSeq(s, i+1, Len(s)), sep)
    ELSE <<s>>

isValidNumber(str) ==
    IF Len(str) = 0 \/ str[1] = "-"
    THEN FALSE
    ELSE \A i \in 1..Len(str) : str[i] \in UnicodeDigits

isSemverValid(version) ==
    LET parts == Split(version, ".")
    IN  IF Len(parts) # 3 THEN FALSE
        ELSE \A i \in 1..Len(parts) : isValidNumber(parts[i])

----------------------------------------------------------------------------
(* The registry: resolve, addPlugin, RegisterHostExtensionPoint *)

Range(s) == {s[i] : i \in 1..Len(s)}

\* The registry state resolve() works on.
Reg(xs, eps, es, lo) == [exts |-> xs, extensionPoints |-> eps, extensions |-> es, leftover |-> lo]

RECURSIVE resolveEps(_, _, _)
\* resolveEps appending the extension to the extension point without marking it Resolved,
\* and keeping it pending
resolveEpsUnmarked(r, v, i) ==
    LET key == r.exts[v].ExtensionPoint
        eps == r.extensionPoints[key]
    IN  IF i > Len(eps) THEN r
        ELSE resolveEps([r EXCEPT !.extensionPoints[key][i].Extensions = Append(@, v),
                                  !.extensions[r.exts[v].Id] = v,
                                  !.leftover = Append(@, v)],
                        v, i + 1)

\* resolveEps marking the extension Resolved without appending it to the extension point
resolveEpsDetached(r, v, i) ==
    LET key == r.exts[v].ExtensionPoint
        eps == r.extensionPoints[key]
    IN  IF i > Len(eps) THEN r
        ELSE resolveEps([r EXCEPT !.exts[v].Resolved = TRUE, !.extensions[r.exts[v].Id] = v],
                        v, i + 1)

\* resolveEps putting the extension on the leftover list at every extension point it
\* scans, the ones it attaches it to included
resolveEpsRequeues(r, v, i) ==
    LET key == r.exts[v].ExtensionPoint
        eps == r.extensionPoints[key]
    IN  IF i > Len(eps) THEN r
        ELSE resolveEps([r EXCEPT !.extensionPoints[key][i].Extensions = Append(@, v),
                                  !.exts[v].Resolved = TRUE,
                                  !.extensions[r.exts[v].Id] = v,
                                  !.leftover = Append(@, v)],
                        v, i + 1)

\* the inner loop of resolve(): for _, ep := range eps, from index i on
resolveEps(r, v, i) ==
    LET key == r.exts[v].ExtensionPoint
        eps == r.extensionPoints[key]
    IN  IF i > Len(eps) THEN r
        ELSE IF r.exts[v].ExtensionPoint = eps[i].Id
             THEN resolveEps(
                    [r EXCEPT !.extensionPoints[key][i].Extensions = Append(@, v),
                              !.exts[v].Resolved = TRUE,
                              !.extensions[r.exts[v].Id] = v],
                    v, i + 1)
             ELSE resolveEps([r EXCEPT !.leftover = Append(@, v)], v, i + 1)

RECURSIVE resolveLoop(_, _, _)
\* resolveLoop visiting the pending queue last-in first-out
resolveLoopLifo(r, pending, k) ==
    IF k > Len(pending) THEN r
    ELSE LET v == pending[Len(pending) - k + 1]
         IN  IF ~r.exts[v].Resolved
             THEN resolveLoop(resolveEps(r, v, 1), pending, k + 1)
             ELSE resolveLoop(r, pending, k + 1)

\* the outer loop of resolve(): for _, v := range e.unresolved, from index k on
resolveLoop(r, pending, k) ==
    IF k > Len(pending) THEN r
    ELSE LET v == pending[k]
         IN  IF ~r.exts[v].Resolved
             THEN resolveLoop(resolveEps(r, v, 1), pending, k + 1)
             ELSE resolveLoop(r, pending, k + 1)

\* Engine.resolve: gives the registry after the pass; its leftover is the new e.unresolved
resolve(xs, eps, es, pending) ==
    IF Len(pending) > 0
    THEN resolveLoop(Reg(xs, eps, es, <<>>), pending, 1)
    ELSE Reg(xs, eps, es, pending)

RECURSIVE addExtensions(_, _, _, _)
\* addPlugin, lines 552-570: one extension record per declared extension, from index i on.
\* st holds exts, unresolved and callableExtensions; p is the *plugin being added.
addExtensions(st, p, exs, i) ==
    IF i > Len(exs) THEN st
    ELSE LET ex == exs[i]
             ee == [Id |-> ex.Id, ExtensionPoint |-> ex.ExtensionPoint, Func |-> ex.Func,
                    Plugin |-> p, Resolved |-> FALSE]
             ref == Len(st.exts) + 1
         IN  addExtensions(
                [exts |-> Append(st.exts, ee),
                 unresolved |-> Append(st.unresolved, ref),
                 callableExtensions |->
                    IF st.callableExtensions[ex.Id] # 0
                    THEN st.callableExtensions
                    ELSE [st.callableExtensions EXCEPT ![ex.Id] = p]],
                p, exs, i + 1)

RECURSIVE addExtensionPoints(_, _, _, _)
\* addPlugin, lines 575-593: one extension point record per declared extension point
addExtensionPoints(eps, p, decl, i) ==
    IF i > Len(decl) THEN eps
    ELSE LET eep == [Id |-> decl[i].Id, Version |-> decl[i].Version,
                     Extensions |-> <<>>, Plugin |-> p]
         IN  addExtensionPoints([eps EXCEPT ![decl[i].Id] = Append(@, eep)], p, decl, i + 1)

\* The outcome record of a public operation that has just begun.
NewResult(op, id, data) ==
    [op |-> op, id |-> id, data |-> data, done |-> FALSE, bytes |-> NoBytes, err |-> NoErr,
     panicked |-> FALSE, owner |-> 0, pre |-> 0]

Done(r) == [r EXCEPT !.done = TRUE]

\* The control thread is in no public operation and the process has not died of a panic.
Idle == stack = <<>> /\ ~result.panicked

\* The registry: the plugin and extension records and the indices over them.
RegState(ps, xs, pl, eps, es, un, ce) ==
    [plugs |-> ps, exts |-> xs, plugins |-> pl, extensionPoints |-> eps, extensions |-> es,
     unresolved |-> un, callableExtensions |-> ce]

Registry ==
    RegState(plugs, exts, plugins, extensionPoints, extensions, unresolved, callableExtensions)

SetRegistry(S) ==
    /\ plugs' = S.plugs
    /\ exts' = S.exts
    /\ plugins' = S.plugins
    /\ extensionPoints' = S.extensionPoints
    /\ extensions' = S.extensions
    /\ unresolved' = S.unresolved
    /\ callableExtensions' = S.callableExtensions

\* addPluginTo running the resolver before it registers the extension points of the manifest
addPluginResolvesFirst(S, m) ==
    LET p == Len(S.plugs) + 1
        st == addExtensions(
                [exts |-> S.exts, unresolved |-> S.unresolved,
                 callableExtensions |-> S.callableExtensions],
                p, m.Extensions, 1)
        r == resolve(st.exts, S.extensionPoints, S.extensions, st.unresolved)
        eps == addExtensionPoints(r.extensionPoints, p, m.ExtensionPoints, 1)
    IN  RegState(Append(S.plugs, [Plugin |-> 0, Resolved |-> FALSE, LoadOnStart |-> m.LoadOnStart]),
                 r.exts, [S.plugins EXCEPT ![m.Id][m.Version] = p],
                 eps, r.extensions, r.leftover, st.callableExtensions)

\* Engine.addPlugin(p, plug) on the registry S: p is a fresh *plugin with a nil instance,
\* plug the parsed manifest m.  Gives the registry when addPlugin returns.
addPluginTo(S, m) ==
    LET p == Len(S.plugs) + 1
        st == addExtensions(
                [exts |-> S.exts, unresolved |-> S.unresolved,
                 callableExtensions |-> S.callableExtensions],
                p, m.Extensions, 1)
        eps == addExtensionPoints(S.extensionPoints, p, m.ExtensionPoints, 1)
        r == resolve(st.exts, eps, S.extensions, st.unresolved)
    IN  RegState(Append(S.plugs, [Plugin |-> 0, Resolved |-> FALSE, LoadOnStart |-> m.LoadOnStart]),
                 r.exts, [S.plugins EXCEPT ![m.Id][m.Version] = p],
                 r.extensionPoints, r.extensions, r.leftover, st.callableExtensions)

\* Engine.addPlugin(p, plug) as loadPluginManifests calls it for one bundle.
addPlugin(m) ==
    /\ Idle
    /\ Len(plugs) < MaxAdds
    /\ SetRegistry(addPluginTo(Registry, m))
    /\ LET old == plugins[m.Id][m.Version]      \* the record line 547 overwrites, 0: none
       IN  result' = [Done(NewResult("addPlugin", m.Id, NoBytes)) EXCEPT
                        !.owner = old,
                        !.pre = IF old = 0 THEN 0 ELSE plugs[old].Plugin]
    /\ trace' = <<>>
    /\ UNCHANGED <<peer, threads, semver, insts, stack, nHostEPs, nCalls>>

\* Engine.RegisterHostExtensionPoint(id, name, version, description)
RegisterHostExtensionPoint(id, version) ==
    /\ Idle
    /\ nHostEPs < MaxHostEPs
    /\ LET ep == [Id |-> id, Version |-> version, Extensions |-> <<>>, Plugin |-> 0]
           exps == [extensionPoints EXCEPT ![id] = Append(@, ep)]
           r == resolve(exts, exps, extensions, unresolved)
       IN  /\ exts' = r.exts
           /\ extensionPoints' = r.extensionPoints
           /\ extensions' = r.extensions
           /\ unresolved' = r.leftover
    /\ nHostEPs' = nHostEPs + 1
    /\ result' = Done(NewResult("RegisterHostExtensionPoint", id, NoBytes))
    /\ trace' = <<>>
    /\ UNCHANGED <<peer, threads, semver, plugs, insts, plugins, callableExtensions, stack, nCalls>>

\* A plugin archive found under the path given to Load: whether it can be extracted, what
\* manifest file the extracted tree holds ("none", "bad": not parseable, "ok"), the manifest
\* when it parses, and whether the tree holds a .wasm file.
Bundle(extract, yaml, m, wasm) == [extract |-> extract, yaml |-> yaml, m |-> m, wasm |-> wasm]

NoManifest == Manifest("", <<>>, FALSE, <<>>, <<>>)

GoodBundle(m) == Bundle(TRUE, "ok", m, TRUE)

Bundles ==
    { Bundle(FALSE, "ok", NoManifest, TRUE),
      Bundle(TRUE, "none", NoManifest, TRUE),
      Bundle(TRUE, "bad", NoManifest, TRUE),
      Bundle(TRUE, "ok", Manifest("A", v100, TRUE, <<Ext("e1", "x", "f")>>, <<>>), FALSE),
      GoodBundle(Manifest("A", v100, TRUE, <<Ext("e1", "x", "f")>>, <<>>)),
      GoodBundle(Manifest("B", v100, FALSE, <<Ext("e2", "x", "g")>>, <<Ep("x", v100)>>)) }

\* The archives of one directory, in the order filepath.WalkDir visits them.
BundleSeqs == UNION {[1..n -> Bundles] : n \in 0..MaxBundles}

\* The archives of a second directory: one that fails to parse, and one whose manifest
\* declares two extensions and two extension points under one id.
OrderedBundles ==
    { Bundle(TRUE, "bad", NoManifest, TRUE),
      GoodBundle(Manifest("C", v200, FALSE, <<Ext("e2", "x", "g"), Ext("e1", "x", "f")>>,
                          <<Ep("x", v200), Ep("x", v100)>>)) }

OrderedBundleSeqs == UNION {[1..n -> OrderedBundles] : n \in 0..MaxBundles}

\* The bundle reaches the statements that build the plugin record (lines 776-804).
ReachesPlugin(b) == b.extract /\ b.yaml = "ok"

\* The number of plugin records loadPluginManifests would add for bs.
Adds(bs) == Cardinality({i \in 1..Len(bs) : ReachesPlugin(bs[i]) /\ bs[i].wasm})

RECURSIVE loadPluginManifests(_, _, _)
\* Engine.loadPluginManifests: the loop over the archives, from index i on.  l holds the
\* registry and whether the process has died of a panic.
loadPluginManifests(l, bs, i) ==
    IF i > Len(bs) \/ l.panicked THEN l
    ELSE IF ~ReachesPlugin(bs[i])
         THEN \* lines 756-759, 781, 801-802: the error is printed, the loop goes on
              loadPluginManifests(l, bs, i + 1)
         ELSE IF ~bs[i].wasm
              THEN \* line 805: wasm[0] of an empty slice
                   [l EXCEPT !.panicked = TRUE]
              ELSE loadPluginManifests([l EXCEPT !.reg = addPluginTo(l.reg, bs[i].m)], bs, i + 1)

\* Engine.Load(path) on the registry S, for a local path under which the archives bs are
\* found: loadPluginManifests, then (unless the process has died) the closing e.resolve().
LoadResult(S, bs) ==
    LET l == loadPluginManifests([reg |-> S, panicked |-> FALSE], bs, 1)
        r == resolve(l.reg.exts, l.reg.extensionPoints, l.reg.extensions, l.reg.unresolved)
    IN  IF l.panicked THEN l
        ELSE [l EXCEPT !.reg.exts = r.exts,
                       !.reg.extensionPoints = r.extensionPoints,
                       !.reg.extensions = r.extensions,
                       !.reg.unresolved = r.leftover]

\* strings.ToLower on one character, for the letters the paths of the model hold
LowerChar(ch) ==
    CASE ch = "H" -> "h" [] ch = "T" -> "t" [] ch = "P" -> "p" [] ch = "S" -> "s"
      [] OTHER -> ch

\* strings.ToLower
ToLower(str) == [k \in 1..Len(str) |-> LowerChar(str[k])]

\* strings.HasPrefix
HasPrefix(str, prefix) == Len(str) >= Len(prefix) /\ SubSeq(str, 1, Len(prefix)) = prefix

\* The paths given to Load: a local directory, a URL written in mixed case, and a local
\* directory whose name begins with the letters http.
LocalPath == "plugs"
Paths == {LocalPath, "HtTpS://h", "httpd"}

\* The characters of a path
Chars(path) ==
    CASE path = "plugs" -> <<"p", "l", "u", "g", "s">>
      [] path = "HtTpS://h" -> <<"H", "t", "T", "p", "S", ":", "/", "/", "h">>
      [] path = "httpd" -> <<"h", "t", "t", "p", "d">>

\* The test of Load, lines 902-903
IsURL(path) == HasPrefix(ToLower(Chars(path)), <<"h", "t", "t", "p">>)

\* Load without the test for a URL
LoadEveryPath(path, bs) ==
    /\ Idle
    /\ Len(plugs) + Adds(bs) <= MaxAdds
    /\ LET l == LoadResult(Registry, bs)
       IN  /\ SetRegistry(l.reg)
           /\ result' = IF l.panicked
                        THEN [NewResult("Load", path, NoBytes) EXCEPT !.panicked = TRUE]
                        ELSE Done(NewResult("Load", path, NoBytes))
    /\ trace' = <<>>
    /\ UNCHANGED <<peer, threads, semver, insts, stack, nHostEPs, nCalls>>

\* The host application calls Engine.Load(path); bs are the archives under the path when
\* it is a local one.
Load(path, bs) ==
    /\ Idle
    /\ IF IsURL(path)
       THEN /\ bs = <<>>
            /\ result' = Done(NewResult("Load", path, NoBytes))
            /\ UNCHANGED <<plugs, exts, plugins, extensionPoints, extensions, unresolved,
                           callableExtensions>>
       ELSE /\ Len(plugs) + Adds(bs) <= MaxAdds
            /\ LET l == LoadResult(Registry, bs)
               IN  /\ SetRegistry(l.reg)
                   /\ result' = IF l.panicked
                                THEN [NewResult("Load", path, NoBytes) EXCEPT !.panicked = TRUE]
                                ELSE Done(NewResult("Load", path, NoBytes))
    /\ trace' = <<>>
    /\ UNCHANGED <<peer, threads, semver, insts, stack, nHostEPs, nCalls>>

\* Engine.GetExtensionForId(eid): the extension record, or 0 for nil
GetExtensionForId(eid) ==
    LET ext == extensions[eid]
    IN  IF ext # 0 /\ exts[ext].Resolved THEN ext ELSE 0

\* The errors of GetExtensionsForExtensionPoint: errors.New at lines 667 and 671, and at 703
VersionInvalid == "version is not a valid SemVer"
NotFound == "no extensions found for extension point"

\* What GetExtensionsForExtensionPoint returns: a list of extensions (nil: <<>>) and an error
Found(l) == [exts |-> l, err |-> NoErr]
Failed(e) == [exts |-> <<>>, err |-> e]

\* lines 677-691: the extensions of the first extension point of eps, from index k on, whose
\* Version is the string lowerVersion
RECURSIVE exactMatch(_, _, _)
exactMatch(eps, lowerVersion, k) ==
    IF k > Len(eps) THEN Failed(NotFound)
    ELSE IF eps[k].Version = lowerVersion THEN Found(eps[k].Extensions)
         ELSE exactMatch(eps, lowerVersion, k + 1)

\* GetExtensionsForExtensionPoint returning, without a version, the list of the last
\* extension point of the id
GetExtensionsOfLast(epoint, versions) ==
    LET eps == IF epoint \in EpIds THEN extensionPoints[epoint] ELSE <<>>
    IN  IF Len(versions) > 0 THEN Failed(NotFound)
        ELSE IF Len(eps) > 0 THEN Found(eps[Len(eps)].Extensions)
        ELSE Failed(NotFound)

\* GetExtensionsForExtensionPoint matching a range by its lower bound
GetExtensionsInRange(epoint, versions) ==
    LET eps == IF epoint \in EpIds THEN extensionPoints[epoint] ELSE <<>>
    IN  IF Len(versions) = 0
        THEN IF Len(eps) > 0 THEN Found(eps[1].Extensions) ELSE Failed(NotFound)
        ELSE IF \E k \in 1..Len(versions) : ~isSemverValid(versions[k])
        THEN Failed(VersionInvalid)
        ELSE exactMatch(eps, versions[1], 1)

\* Engine.GetExtensionsForExtensionPoint(epoint, versions); a string is a sequence of
\* characters, <<>> the empty string
GetExtensionsForExtensionPoint(epoint, versions) ==
    LET eps == IF epoint \in EpIds THEN extensionPoints[epoint] ELSE <<>>
        lowerVersion == IF Len(versions) > 0 THEN versions[1] ELSE <<>>
        upperVersion == IF Len(versions) > 1 THEN versions[2] ELSE <<>>
    IN  IF Len(versions) > 0 /\ ~isSemverValid(lowerVersion)
        THEN Failed(VersionInvalid)
        ELSE IF Len(versions) > 0 /\ Len(upperVersion) > 0 /\ ~isSemverValid(upperVersion)
        THEN Failed(VersionInvalid)
        ELSE IF Len(eps) > 0
        THEN IF Len(lowerVersion) > 0
             THEN IF Len(upperVersion) <= 0
                  THEN exactMatch(eps, lowerVersion, 1)
                  ELSE Failed(NotFound)
             ELSE Found(eps[1].Extensions)
        ELSE Failed(NotFound)

\* json.Marshal of a list of extensions: the manifest fields of each, in order
Json(l) == [json |-> [k \in 1..Len(l) |-> Ext(exts[l[k]].Id, exts[l[k]].ExtensionPoint, exts[l[k]].Func)]]

\* The host function GetExtensions (hostfuncs.go lines 100-131) called with the extension
\* point id extPtId: what it leaves in stack[0] for the plugin, the bytes written into the
\* plugin's memory or 0.
GetExtensions(extPtId) ==
    LET r == GetExtensionsForExtensionPoint(extPtId, <<>>)
    IN  IF Len(r.exts) > 0 THEN Json(r.exts) ELSE "0"

----------------------------------------------------------------------------
(* Calls across the sandbox boundary: instantiate, Start, CallExtensionFunc, *)
(* the host function CallExtension                                          *)

\* Frames of the call stack.  An engine frame (Start, CallExtensionFunc) waits for the
\* export it has entered; a wasm frame is an export of a plugin instance that is running.
Frame(k) ==
    [k |-> k, id |-> "", data |-> NoBytes, host |-> FALSE, p |-> 0, phase |-> "",
     inst |-> 0, fn |-> "", hret |-> "none", todo |-> {}]

StartFrame(todo) == [Frame("Start") EXCEPT !.todo = todo]

CEFFrame(id, data, host, p, phase) ==
    [Frame("CEF") EXCEPT !.id = id, !.data = data, !.host = host, !.p = p, !.phase = phase]

WasmFrame(inst, fn, data) == [Frame("wasm") EXCEPT !.inst = inst, !.fn = fn, !.data = data]

\* What the sandbox is seen to do: an instance created ("new") or refused ("newfail"), an
\* export entered ("enter") or left ("exit"), the host function CallExtension called
\* ("hostcall") and returning ("hostret").
Event(ev, p, inst, fn, data, out, depth) ==
    [ev |-> ev, p |-> p, inst |-> inst, fn |-> fn, data |-> data, out |-> out, depth |-> depth]

\* "hostcall": the export at stack depth d calls CallExtension(id, data); callable is the
\* call index's plugin for id and pre its instance at that moment (0: none).
HostCallEvent(callable, pre, id, data, d) == Event("hostcall", callable, pre, id, data, NoBytes, d)

\* The part of the state a call works on.
Cfg(stk, ps, is, tr, res) == [stack |-> stk, plugs |-> ps, insts |-> is, trace |-> tr, result |-> res]

Here == Cfg(stack, plugs, insts, trace, result)

Top(c) == c.stack[Len(c.stack)]

Pop(c) == [c EXCEPT !.stack = SubSeq(@, 1, Len(@) - 1)]

Push(c, f) == [c EXCEPT !.stack = Append(@, f)]

Log(c, e) == [c EXCEPT !.trace = Append(@, e)]

\* The innermost export that is running, 0 when the control thread is in no export.
TopWasm(stk) ==
    IF \E j \in 1..Len(stk) : stk[j].k = "wasm"
    THEN CHOOSE j \in 1..Len(stk) : stk[j].k = "wasm" /\ \A i \in (j+1)..Len(stk) : stk[i].k # "wasm"
    ELSE 0

\* CEFReturn with the host function never storing the reference of the response in stack[0]
CEFReturnKeepsInput(c, f, d, err) ==
    IF ~f.host
    THEN [c EXCEPT !.result.done = TRUE, !.result.bytes = d, !.result.err = err]
    ELSE LET w == Top(c)
         IN  Log([c EXCEPT !.stack[Len(c.stack)].hret = "input"],
                 Event("hostret", f.p, w.inst, f.id, f.data, "input", Len(c.stack)))

\* CallExtensionFunc returns (d, err) to its caller: to the host application, or to the host
\* function CallExtension (hostfuncs.go lines 73-87), which writes the bytes into the
\* plugin's memory and puts their reference in stack[0] only when they are not nil.
CEFReturn(c, f, d, err) ==
    IF ~f.host
    THEN [c EXCEPT !.result.done = TRUE, !.result.bytes = d, !.result.err = err]
    ELSE LET w == Top(c)
             ref == IF d # NoBytes THEN d ELSE "input"
         IN  Log([c EXCEPT !.stack[Len(c.stack)].hret = ref],
                 Event("hostret", f.p, w.inst, f.id, f.data, ref, Len(c.stack)))

\* The export an extension names: extension.Func
ExportName(ext) == exts[ext].Func

RECURSIVE Panic(_), WasmExit(_, _), CallExport(_)

\* A Go panic (nil pointer dereference).  Inside a host function the sandbox recovers it
\* and the export that called the host function ends with an error; outside any export it
\* ends the process.
Panic(c) ==
    LET j == TopWasm(c.stack)
    IN  IF j = 0
        THEN [c EXCEPT !.stack = <<>>, !.result.panicked = TRUE]
        ELSE WasmExit([c EXCEPT !.stack = SubSeq(@, 1, j)], CallErr)

\* CallExtensionFunc line 1004: callable.Plugin.Call(extension.Func, data), where extension
\* is e.extensions[extensionId].  The top frame is the CallExtensionFunc frame.
CallExport(c) ==
    LET f == Top(c)
        extension == extensions[f.id]
        inst == c.plugs[f.p].Plugin
    IN  IF extension = 0 \/ inst = 0
        THEN Panic(c)
        ELSE Log(Push([c EXCEPT !.stack[Len(c.stack)].phase = "call"],
                      WasmFrame(inst, ExportName(extension), f.data)),
                 Event("enter", f.p, inst, ExportName(extension), f.data, NoBytes, Len(c.stack) + 1))

\* The export on top of the stack ends with out: bytes (or nil), or CallErr.
\* Control goes back to the engine frame that entered it.
WasmExit(c, out) ==
    LET w == Top(c)
        c1 == Log(Pop(c), Event("exit", c.insts[w.inst].p, w.inst, w.fn, w.data, out, Len(c.stack)))
        f == Top(c1)
        c2 == IF w.fn = "start" /\ f.phase # "call"
              THEN [c1 EXCEPT !.insts[w.inst].start = IF out = CallErr THEN "failed" ELSE "ok"]
              ELSE c1
    IN  IF f.k = "Start"
        THEN \* instantiate returns nil to Start (lines 858-867, 881-885)
             IF f.todo = {} THEN [Pop(c2) EXCEPT !.result.done = TRUE] ELSE c2
        ELSE IF f.phase = "inst"
             THEN \* instantiate returns nil to CallExtensionFunc (lines 999-1004)
                  CallExport(c2)
             ELSE \* lines 1004-1009
                  IF out = CallErr
                  THEN CEFReturn(Pop(c2), f, NoBytes, CallErr)
                  ELSE CEFReturn(Pop(c2), f, out, NoErr)

\* The host functions the application gives NewPluginEngine, and the ones GetHostFuncs
\* returns (hostfuncs.go line 141)
UserHostFuncs == <<"user">>
GetHostFuncs == <<"CallExtension", "LoadFile", "GetExtensions">>

\* NewPluginEngine line 1043: the table stored in engine.hostFuncs at line 1044
hfs == UserHostFuncs \o GetHostFuncs

\* e.hostFuncs as instantiate reads it (line 850).  GetHostFuncs has a value receiver, so
\* the three host functions are bound to the copy of the Engine made by the call at line
\* 1043, before line 1044 sets the field: a CallExtensionFunc made by the host function
\* CallExtension runs on that copy, whose hostFuncs is nil.
hostFuncs(c) == IF Top(c).k = "CEF" /\ Top(c).host THEN <<>> ELSE hfs

\* instantiate calling start without storing the new instance in plugin.Plugin first
instantiateUnpublished(c, p, ok) ==
    IF ok
    THEN LET i == Len(c.insts) + 1
         IN  Log(Log(Push([c EXCEPT !.insts = Append(@, [p |-> p, start |-> "running",
                                                         hostFuncs |-> hostFuncs(c)])],
                          WasmFrame(i, "start", NoBytes)),
                     Event("new", p, i, "", NoBytes, NoBytes, Len(c.stack))),
                 Event("enter", p, i, "start", NoBytes, NoBytes, Len(c.stack) + 1))
    ELSE Panic(Log([c EXCEPT !.plugs[p].Plugin = 0],
                   Event("newfail", p, 0, "", NoBytes, NoBytes, Len(c.stack))))

\* Engine.instantiate(plugin), lines 850-858: extism.NewPlugin succeeds (ok) or fails; its
\* result is stored in plugin.Plugin either way, and start is called on it.
instantiate(c, p, ok) ==
    IF ok
    THEN LET i == Len(c.insts) + 1
         IN  Log(Log(Push([c EXCEPT !.plugs[p].Plugin = i,
                                    !.insts = Append(@, [p |-> p, start |-> "running",
                                                         hostFuncs |-> hostFuncs(c)])],
                          WasmFrame(i, "start", NoBytes)),
                     Event("new", p, i, "", NoBytes, NoBytes, Len(c.stack))),
                 Event("enter", p, i, "start", NoBytes, NoBytes, Len(c.stack) + 1))
    ELSE Panic(Log([c EXCEPT !.plugs[p].Plugin = 0],
                   Event("newfail", p, 0, "", NoBytes, NoBytes, Len(c.stack))))

\* NeedsInstance without the nil test: every call instantiates
NeedsInstanceAlways(c, callable) == TRUE

\* The test of CallExtensionFunc line 997
NeedsInstance(c, callable) == c.plugs[callable].Plugin = 0

\* CallExtensionFunc setting the Resolved flag of the plugin it instantiates
CallExtensionFuncMarksPlugin(c, id, data, host, ok) ==
    LET callable == callableExtensions[id]
        f == CEFFrame(id, data, host, callable, "inst")
    IN  IF callable # 0
        THEN IF NeedsInstance(c, callable)
             THEN instantiate(Push([c EXCEPT !.plugs[callable].Resolved = TRUE], f), callable, ok)
             ELSE CallExport(Push(c, f))
        ELSE CEFReturn(c, f, NoBytes, NoErr)

\* Engine.CallExtensionFunc(extensionId, data), up to the first export it enters.
\* host tells whether the host function CallExtension is the caller.
CallExtensionFunc(c, id, data, host, ok) ==
    LET callable == callableExtensions[id]
        f == CEFFrame(id, data, host, callable, "inst")
    IN  IF callable # 0
        THEN IF NeedsInstance(c, callable)
             THEN instantiate(Push(c, f), callable, ok)
             ELSE CallExport(Push(c, f))
        ELSE CEFReturn(c, f, NoBytes, NoErr)

\* The number of host-function calls made so far in the public operation under way.
HostCalls(tr) == Cardinality({k \in 1..Len(tr) : tr[k].ev = "hostcall"})

\* The sandbox can create one more instance.
Room(c, id, ok) ==
    (ok /\ callableExtensions[id] # 0 /\ NeedsInstance(c, callableExtensions[id]))
        => Len(c.insts) < MaxInsts

Commit(c) ==
    /\ stack' = c.stack
    /\ plugs' = c.plugs
    /\ insts' = c.insts
    /\ trace' = c.trace
    /\ result' = c.result

\* The host application calls Engine.CallExtensionFunc(id, data).
AppCallExtensionFunc(id, data, ok) ==
    /\ Idle
    /\ nCalls < MaxCalls
    /\ Room(Here, id, ok)
    /\ LET callable == callableExtensions[id]
           r == [NewResult("CallExtensionFunc", id, data) EXCEPT
                    !.owner = callable,
                    !.pre = IF callable = 0 THEN 0 ELSE plugs[callable].Plugin]
       IN  Commit(CallExtensionFunc(Cfg(<<>>, plugs, insts, <<>>, r), id, data, FALSE, ok))
    /\ nCalls' = nCalls + 1
    /\ UNCHANGED <<peer, threads, semver, exts, plugins, extensionPoints, extensions, unresolved,
                   callableExtensions, nHostEPs>>

\* The host function CallExtension (hostfuncs.go lines 54-88), called by the export that
\* is running with an extension id and a payload.
CallExtension(id, data, ok) ==
    /\ stack # <<>>
    /\ Top(Here).k = "wasm"
    /\ HostCalls(trace) < MaxHostCalls
    /\ Len(stack) + 2 <= MaxDepth
    /\ Room(Here, id, ok)
    /\ LET callable == callableExtensions[id]
           pre == IF callable = 0 THEN 0 ELSE plugs[callable].Plugin
           c == Log(Here, HostCallEvent(callable, pre, id, data, Len(stack)))
       IN  Commit(CallExtensionFunc(c, id, data, TRUE, ok))
    /\ UNCHANGED <<peer, threads, semver, exts, plugins, extensionPoints, extensions, unresolved,
                   callableExtensions, nHostEPs, nCalls>>

\* The export that is running returns: out is its bytes, nil, or an error.
WasmReturn(out) ==
    /\ stack # <<>>
    /\ Top(Here).k = "wasm"
    /\ Top(Here).fn = "start" => out \in {NoBytes, CallErr}
    /\ Commit(WasmExit(Here, out))
    /\ UNCHANGED <<peer, threads, semver, exts, plugins, extensionPoints, extensions, unresolved,
                   callableExtensions, nHostEPs, nCalls>>

\* StartSet without the test of LoadOnStart
StartSetAll == {p \in 1..Len(plugs) : \E i \in PluginIds : \E v \in Versions : plugins[i][v] = p}

\* The plugins Start ranges over that have LoadOnStart set (lines 877-880)
StartSet == {p \in 1..Len(plugs) :
                /\ \E i \in PluginIds : \E v \in Versions : plugins[i][v] = p
                /\ plugs[p].LoadOnStart}

\* The host application calls Engine.Start().
Start ==
    /\ Idle
    /\ nCalls < MaxCalls
    /\ LET r == NewResult("Start", "", NoBytes)
       IN  IF StartSet = {}
           THEN Commit(Cfg(<<>>, plugs, insts, <<>>, Done(r)))
           ELSE Commit(Cfg(<<StartFrame(StartSet)>>, plugs, insts, <<>>, r))
    /\ nCalls' = nCalls + 1
    /\ UNCHANGED <<peer, threads, semver, exts, plugins, extensionPoints, extensions, unresolved,
                   callableExtensions, nHostEPs>>

\* One iteration of the loop of Start: the map is ranged over in no fixed order.
StartLoop(p, ok) ==
    /\ stack # <<>>
    /\ Top(Here).k = "Start"
    /\ p \in Top(Here).todo
    /\ ok => Len(insts) < MaxInsts
    /\ Commit(instantiate([Here EXCEPT !.stack[Len(stack)].todo = @ \ {p}], p, ok))
    /\ UNCHANGED <<peer, threads, semver, exts, plugins, extensionPoints, extensions, unresolved,
                   callableExtensions, nHostEPs, nCalls>>

----------------------------------------------------------------------------
(* The read-only projections, called by the host application *)

\* Engine.GetPlugins(), lines 988-990: the plugins index itself
GetPlugins == plugins

\* A projection has returned: what (nil: 0, or the number of extensions returned) and err.
Answer(op, id, what, err) ==
    [Done(NewResult(op, id, NoBytes)) EXCEPT !.pre = what, !.err = err]

\* No field of the engine is written; the call counts as one of the application's.
ReadOnly ==
    /\ nCalls < MaxCalls
    /\ nCalls' = nCalls + 1
    /\ UNCHANGED <<peer, threads, semver, plugs, exts, insts, plugins, extensionPoints,
                   extensions, unresolved, callableExtensions, stack, nHostEPs>>

\* The host application calls Engine.GetExtensionForId(eid).
AppGetExtensionForId(eid) ==
    /\ Idle
    /\ result' = Answer("GetExtensionForId", eid, GetExtensionForId(eid), NoErr)
    /\ trace' = <<>>
    /\ ReadOnly

\* The host application calls Engine.GetPlugins().
AppGetPlugins ==
    /\ Idle
    /\ result' = Answer("GetPlugins", "", Cardinality({i \in PluginIds : \E v \in Versions :
                                                        GetPlugins[i][v] # 0}), NoErr)
    /\ trace' = <<>>
    /\ ReadOnly

\* The host application calls Engine.GetExtensionsForExtensionPoint(epoint, versions).
AppGetExtensionsForExtensionPoint(epoint, versions) ==
    /\ Idle
    /\ LET r == GetExtensionsForExtensionPoint(epoint, versions)
       IN  result' = Answer("GetExtensionsForExtensionPoint", epoint, Len(r.exts), r.err)
    /\ trace' = <<>>
    /\ ReadOnly

----------------------------------------------------------------------------
(* A second engine of the process, and goroutines beside the control thread *)

\* The fields NewPluginEngine gives an Engine (lines 1021-1024): empty maps, no pending
\* extension.
NewEngine ==
    [plugins |-> [i \in PluginIds |-> [v \in Versions |-> 0]],
     extensionPoints |-> [i \in EpIds |-> <<>>],
     extensions |-> [i \in ExtIds |-> 0],
     unresolved |-> <<>>,
     records |-> {}]        \* the plugin records its addPlugin has created

\* addPlugin(p, plug) called on the second engine.  Its maps and its pending queue are its
\* own fields; the records it creates live in the memory of the process, and
\* callableExtensions is the package variable of line 505, the same for every Engine.
PeerAddPlugin(m) ==
    /\ Idle
    /\ Len(plugs) < MaxAdds
    /\ LET S == addPluginTo(RegState(plugs, exts, peer.plugins, peer.extensionPoints,
                                     peer.extensions, peer.unresolved, callableExtensions), m)
       IN  /\ plugs' = S.plugs
           /\ exts' = S.exts
           /\ callableExtensions' = S.callableExtensions
           /\ peer' = [plugins |-> S.plugins, extensionPoints |-> S.extensionPoints,
                       extensions |-> S.extensions, unresolved |-> S.unresolved,
                       records |-> peer.records \cup {Len(S.plugs)}]
    /\ UNCHANGED <<threads, semver, insts, plugins, extensionPoints, extensions, unresolved,
                   stack, result, trace, nHostEPs, nCalls>>

Threads == 1..MaxThreads

\* A goroutine that has not called into the engine.
NoThread == [pc |-> "idle", id |-> "", exps |-> <<>>]

\* A goroutine calls RegisterHostExtensionPoint(id, name, version, description) and runs
\* lines 968-982: it builds the extension point, reads e.extensionPoints[id] and appends to
\* the slice it read.  Nothing in the engine orders it with the other goroutines.
RegisterBegin(t, id, version) ==
    /\ ~result.panicked
    /\ threads[t].pc = "idle"
    /\ LET ep == [Id |-> id, Version |-> version, Extensions |-> <<>>, Plugin |-> 0]
       IN  threads' = [threads EXCEPT ![t] = [pc |-> "append", id |-> id,
                                              exps |-> Append(extensionPoints[id], ep)]]
    /\ UNCHANGED <<peer, semver, plugs, exts, insts, plugins, extensionPoints, extensions,
                   unresolved, callableExtensions, stack, result, trace, nHostEPs, nCalls>>

\* The goroutine runs lines 984-985: it stores its slice in the map and calls resolve.
\* When another goroutine is about to write the same map the two writes are a data race:
\* the Go runtime may end the process (fatal error: concurrent map writes) or let the
\* write through.
RegisterEnd(t, fatal) ==
    /\ ~result.panicked
    /\ threads[t].pc = "append"
    /\ fatal => \E u \in Threads \ {t} : threads[u].pc = "append"
    /\ threads' = [threads EXCEPT ![t].pc = "done"]
    /\ IF fatal
       THEN /\ result' = [result EXCEPT !.panicked = TRUE]
            /\ UNCHANGED <<exts, extensionPoints, extensions, unresolved>>
       ELSE /\ LET exps == [extensionPoints EXCEPT ![threads[t].id] = threads[t].exps]
                   r == resolve(exts, exps, extensions, unresolved)
               IN  /\ exts' = r.exts
                   /\ extensionPoints' = r.extensionPoints
                   /\ extensions' = r.extensions
                   /\ unresolved' = r.leftover
            /\ UNCHANGED result
    /\ UNCHANGED <<peer, semver, plugs, insts, plugins, callableExtensions, stack, trace,
                   nHostEPs, nCalls>>

----------------------------------------------------------------------------
(* isSemverValid applied to a string *)

\* A string no validation has looked at yet.
Unchecked(s) == [s |-> s, valid |-> "unchecked"]

\* The characters of the strings isSemverValid is tried on: the dot, the minus sign, ASCII
\* digits, a letter and the non-ASCII digit U+0663; and the strings themselves.
Alphabet == {".", "-", "0", "7", "a", "u0663"}
VersionStrings == UNION {[1..n -> Alphabet] : n \in 0..MaxVersionLen}

\* isSemverValid(version) is called and returns
Validate ==
    /\ semver.valid = "unchecked"
    /\ semver' = [semver EXCEPT !.valid = IF isSemverValid(semver.s) THEN "true" ELSE "false"]
    /\ UNCHANGED <<plugs, exts, insts, plugins, extensionPoints, extensions, unresolved,
                   callableExtensions, stack, result, trace, nHostEPs, nCalls, peer, threads>>

----------------------------------------------------------------------------
(* The state after NewPluginEngine *)

InitEngine ==
    /\ plugs = <<>>
    /\ exts = <<>>
    /\ insts = <<>>
    /\ plugins = [i \in PluginIds |-> [v \in Versions |-> 0]]
    /\ extensionPoints = [i \in EpIds |-> <<>>]
    /\ extensions = [i \in ExtIds |-> 0]
    /\ unresolved = <<>>
    /\ callableExtensions = [i \in ExtIds |-> 0]
    /\ stack = <<>>
    /\ result = NewResult("none", "", NoBytes)
    /\ trace = <<>>
    /\ nHostEPs = 0
    /\ nCalls = 0
    /\ peer = NewEngine
    /\ threads = [t \in Threads |-> NoThread]

Init == InitEngine /\ semver = Unchecked(<<>>)

Next ==
    \/ \E m \in Manifests : addPlugin(m)
    \/ \E id \in EpIds : RegisterHostExtensionPoint(id, v100)
    \/ Load(LocalPath, <<>>)
    \/ Start
    \/ \E p \in 1..MaxAdds : \E ok \in BOOLEAN : StartLoop(p, ok)
    \/ \E id \in ExtIds : \E data \in Bytes : \E ok \in BOOLEAN : AppCallExtensionFunc(id, data, ok)
    \/ \E id \in ExtIds : \E data \in Bytes : \E ok \in BOOLEAN : CallExtension(id, data, ok)
    \/ \E out \in Bytes \cup {NoBytes, CallErr} : WasmReturn(out)

Spec == Init /\ [][Next]_vars

\* The registry alone: the host application loads directories of archives and registers
\* extension points, and calls nothing.
NextRegistry ==
    \/ \E bs \in BundleSeqs : Load(LocalPath, bs)
    \/ \E m \in Manifests : addPlugin(m)
    \/ \E id \in EpIds : \E v \in Versions : RegisterHostExtensionPoint(id, v)

SpecRegistry == Init /\ [][NextRegistry]_vars

\* isSemverValid alone, on every string of VersionStrings.
\* The registry operations with Load given every path, over the second directory
NextPaths ==
    \/ \E path \in Paths : \E bs \in OrderedBundleSeqs : Load(path, bs)
    \/ \E m \in Manifests : addPlugin(m)
    \/ \E id \in EpIds : \E v \in Versions : RegisterHostExtensionPoint(id, v)

SpecPaths == Init /\ [][NextPaths]_vars

\* Goroutines register host extension points while the control thread adds plugins
NextThreads ==
    \/ \E t \in Threads : \E id \in EpIds : RegisterBegin(t, id, v100)
    \/ \E t \in Threads : \E fatal \in BOOLEAN : RegisterEnd(t, fatal)
    \/ \E m \in Manifests : addPlugin(m)

SpecThreads == Init /\ [][NextThreads]_vars

\* Two engines in one process: plugins are added to both, the application calls extensions
\* on the first
NextEngines ==
    \/ \E m \in Manifests : PeerAddPlugin(m)
    \/ \E m \in Manifests : addPlugin(m)
    \/ \E id \in ExtIds : \E data \in Bytes : \E ok \in BOOLEAN : AppCallExtensionFunc(id, data, ok)
    \/ \E out \in Bytes \cup {NoBytes, CallErr} : WasmReturn(out)

SpecEngines == Init /\ [][NextEngines]_vars

InitSemver == InitEngine /\ semver \in {Unchecked(s) : s \in VersionStrings}

NextSemver == Validate

SpecSemver == InitSemver /\ [][NextSemver]_vars

----------------------------------------------------------------------------
(* Properties *)

IsCall == result.op = "CallExtensionFunc"

\* Some plugin that was added declares an extension with this id.
Declared(id) == \E x \in 1..Len(exts) : exts[x].Id = id

\* The extension x is in the Extensions list of an extension point with the id it targets.
Attached(x) ==
    \E k \in 1..Len(extensionPoints[exts[x].ExtensionPoint]) :
        x \in Range(extensionPoints[exts[x].ExtensionPoint][k].Extensions)

\* The exports entered and left directly by the public operation under way (not by a
\* nested host-function call), in order.
IsDirect(e) == e.ev \in {"enter", "exit"} /\ e.depth = 2

Direct == SelectSeq(trace, IsDirect)

\* C1: an extension whose target extension-point id is not registered stays in the pending
\* queue, unresolved, over every resolve pass; once an extension point with that id is
\* registered (addPlugin and RegisterHostExtensionPoint both end with a resolve pass) it is
\* Resolved, in the resolved index and attached to the extension point.
C1_PendingUntilRegistered ==
    \A x \in 1..Len(exts) :
        IF extensionPoints[exts[x].ExtensionPoint] = <<>>
        THEN ~exts[x].Resolved /\ x \in Range(unresolved)
        ELSE exts[x].Resolved /\ Attached(x)
             /\ extensions[exts[x].Id] # 0 /\ exts[extensions[exts[x].Id]].Resolved

\* C2: for every extension record marked Resolved the call index maps its id to the plugin
\* that declared it and the resolved index maps its id to the record itself.
C2_ResolvedIsIndexed ==
    \A x \in 1..Len(exts) :
        exts[x].Resolved =>
            /\ callableExtensions[exts[x].Id] = exts[x].Plugin
            /\ extensions[exts[x].Id] = x

\* C3: a CallExtensionFunc that invokes an export and returns without error is for an id
\* that is in the resolved index with Resolved = true; a CallExtensionFunc for an extension
\* that is declared but not resolved invokes no export and does not crash the engine.
C3_Callability ==
    IsCall =>
        /\ (result.done /\ result.err = NoErr /\ Direct # <<>>)
                => GetExtensionForId(result.id) # 0
        /\ (Declared(result.id) /\ GetExtensionForId(result.id) = 0)
                => (~result.panicked /\ \A k \in 1..Len(trace) : trace[k].ev # "enter")

\* C4: CallExtensionFunc for an id no plugin declares, or for a declared but unresolved
\* extension, returns an error: never (no bytes, no error).
C4_UnknownIsAnError ==
    (IsCall /\ result.done /\ GetExtensionForId(result.id) = 0) => result.err # NoErr

\* C5: a completed CallExtensionFunc(id, data) for a resolved extension whose owner (the
\* plugin the call index names) had no instance has created one instance of the owner, run
\* its start export to the end, then entered the export the extension names with exactly
\* data, and returned exactly what that export returned; when the owner had an instance,
\* the call created none for it and entered the export on that instance.
C5_LazyCall ==
    (IsCall /\ result.done /\ GetExtensionForId(result.id) # 0) =>
        LET p == result.owner
            fn == ExportName(extensions[result.id])
            n == Len(Direct)
            call == Direct[n - 1]
            ret == Direct[n]
            made == {k \in 1..Len(trace) : trace[k].ev = "new" /\ trace[k].p = p}
        IN  /\ p # 0
            /\ IF result.pre = 0
               THEN /\ n = 4
                    /\ made = {1}
                    /\ plugs[p].Plugin = trace[1].inst
                    /\ Direct[1].ev = "enter" /\ Direct[1].fn = "start"
                    /\ Direct[1].inst = trace[1].inst
                    /\ Direct[2].ev = "exit" /\ Direct[2].fn = "start"
               ELSE /\ n = 2
                    /\ made = {}
                    /\ plugs[p].Plugin = result.pre
            /\ call.ev = "enter" /\ call.fn = fn /\ call.data = result.data
            /\ call.inst = plugs[p].Plugin
            /\ ret.ev = "exit" /\ ret.fn = fn /\ ret.inst = call.inst
            /\ IF ret.out = CallErr
               THEN result.bytes = NoBytes /\ result.err = CallErr
               ELSE result.bytes = ret.out /\ result.err = NoErr

\* C5 witness: a call that found its owner without an instance has returned the bytes b2 of
\* the export for the payload b1.
C5_Witness ==
    /\ IsCall /\ result.done /\ GetExtensionForId(result.id) # 0
    /\ result.pre = 0 /\ result.data = "b1" /\ result.bytes = "b2"

\* The instance of the export that made the host-function call logged at trace[h].
CallerInst(h) ==
    LET before == {k \in 1..h : trace[k].ev = "enter" /\ trace[k].depth = trace[h].depth}
        last == CHOOSE k \in before : \A j \in before : j <= k
    IN  trace[last].inst

InstancesOf(p) == {i \in 1..Len(insts) : insts[i].p = p}

\* C7: every plugin record is instantiated at most once, and so its start export is called
\* at most once, whatever Start and CallExtensionFunc calls are made.
C7_InstantiatedAtMostOnce ==
    \A p \in 1..Len(plugs) : Cardinality(InstancesOf(p)) <= 1

\* C8: a failure to create the sandbox instance of a plugin, or a failure of its start
\* export, does not crash the engine, and the CallExtensionFunc that met it returns an error.
C8_FailureContained ==
    LET failed == \E k \in 1..Len(trace) :
                     \/ trace[k].ev = "newfail"
                     \/ trace[k].ev = "exit" /\ trace[k].fn = "start" /\ trace[k].out = CallErr
                          /\ trace[k].depth = 2
    IN  failed => /\ ~result.panicked
                  /\ (IsCall /\ result.done) => result.err # NoErr

\* C9: a plugin whose start export failed is left without an instance (Instance is nil).
C9_FailedStartLeavesNoInstance ==
    \A p \in 1..Len(plugs) :
        plugs[p].Plugin # 0 => insts[plugs[p].Plugin].start # "failed"

\* C10: every plugin in the registry has a Version for which isSemverValid is true.
C10_VersionsAreValid ==
    \A id \in PluginIds : \A v \in Versions : plugins[id][v] # 0 => isSemverValid(v)

\* The plugin record p is in the plugins index.
Registered(p) == \E i \in PluginIds : \E v \in Versions : plugins[i][v] = p

\* The extension records in the Extensions list of some extension point.
\* C11: a plugin added with the (Id, Version) of an existing one replaces it in the plugins
\* index, and no extension of the replaced plugin stays in the resolved index, in the call
\* index or in the Extensions list of an extension point: every record those three reach
\* belongs to a plugin that is in the plugins index.
C11_ReplacedPluginUnreachable ==
    /\ \A id \in ExtIds :
        /\ callableExtensions[id] # 0 => Registered(callableExtensions[id])
        /\ extensions[id] # 0 => Registered(exts[extensions[id]].Plugin)
    /\ \A i \in EpIds : \A k \in 1..Len(extensionPoints[i]) :
        \A x \in Range(extensionPoints[i][k].Extensions) : Registered(exts[x].Plugin)

\* C12: an extension is attached to the first extension point, in insertion order, of the
\* id it targets and to no other, and to that one once.
C12_AttachedToFirstOnly ==
    \A i \in EpIds : \A k \in 1..Len(extensionPoints[i]) :
        LET l == extensionPoints[i][k].Extensions
        IN  /\ l # <<>> => k = 1
            /\ \A a \in 1..Len(l) : \A b \in 1..Len(l) : l[a] = l[b] => a = b

\* C13: every extension marked Resolved targets an extension-point id under which an
\* extension point is registered (extension points are never removed, so one was registered
\* when resolve marked it), and is in the Extensions list of an extension point of that id.
C13_ResolutionSound ==
    \A x \in 1..Len(exts) :
        exts[x].Resolved =>
            /\ extensionPoints[exts[x].ExtensionPoint] # <<>>
            /\ Attached(x)
            /\ \A k \in 1..Len(extensionPoints[exts[x].ExtensionPoint]) :
                    extensionPoints[exts[x].ExtensionPoint][k].Id = exts[x].ExtensionPoint

\* C13 witness: one extension is Resolved and attached while another, whose target id has no
\* extension point, is not.
C13_Witness ==
    \E x \in 1..Len(exts) : \E y \in 1..Len(exts) :
        /\ exts[x].Resolved /\ Attached(x)
        /\ ~exts[y].Resolved /\ extensionPoints[exts[y].ExtensionPoint] = <<>>

\* C14: an extension that is Resolved and that GetExtensionForId returns for its id stays
\* Resolved and stays what GetExtensionForId returns over every step that leaves its plugin
\* in the plugins index.
C14_MonotonicResolution ==
    [][\A x \in 1..Len(exts) :
          (/\ exts[x].Resolved
           /\ GetExtensionForId(exts[x].Id) = x
           /\ \E i \in PluginIds : \E v \in Versions : plugins'[i][v] = exts[x].Plugin)
              => (/\ exts'[x].Resolved
                  /\ extensions'[exts[x].Id] = x)]_vars

\* The pending queues resolve() is run on: the engine's own, and every list of at most
\* MaxPending extension records.
PendingLists == {unresolved} \cup UNION {[1..n -> 1..Len(exts)] : n \in 0..MaxPending}

\* resolve() run on the registry r
resolveAgain(r) == resolve(r.exts, r.extensionPoints, r.extensions, r.leftover)

\* C15: running resolve() twice in succession gives the same extension records, extension
\* points with their Extensions lists, resolved index and pending queue as running it once
\* (resolve touches neither the plugins index nor the call index).
C15_ResolveIdempotent ==
    \A pending \in PendingLists :
        LET once == resolve(exts, extensionPoints, extensions, pending)
        IN  resolveAgain(once) = once

\* C15 witness: a pass over a pending queue that holds an unresolved extension whose
\* extension point is registered does change the registry.
C15_Witness ==
    \E x \in 1..Len(exts) :
        /\ ~exts[x].Resolved
        /\ extensionPoints[exts[x].ExtensionPoint] # <<>>
        /\ LET once == resolve(exts, extensionPoints, extensions, <<x>>)
           IN  /\ once.exts[x].Resolved
               /\ once.extensionPoints # extensionPoints
               /\ resolveAgain(once) = once

\* C16: when addPlugin returns, every extension of the plugin it added whose target id
\* has an extension point (registered before, or by the same manifest) is Resolved, is what
\* the resolved index holds for its id, and is in the Extensions list of an extension point
\* of that id.
C16_AddPluginResolves ==
    result.op = "addPlugin" =>
        \A x \in 1..Len(exts) :
            (exts[x].Plugin = Len(plugs) /\ extensionPoints[exts[x].ExtensionPoint] # <<>>)
                => (exts[x].Resolved /\ extensions[exts[x].Id] = x /\ Attached(x))

\* C16 witness: addPlugin has returned for a manifest that declares an extension and, itself,
\* the only extension point of the id the extension targets.
C16_Witness ==
    /\ result.op = "addPlugin"
    /\ \E x \in 1..Len(exts) :
        LET eps == extensionPoints[exts[x].ExtensionPoint]
        IN  /\ exts[x].Plugin = Len(plugs)
            /\ Len(eps) = 1 /\ eps[1].Plugin = Len(plugs)
            /\ exts[x].Resolved /\ eps[1].Extensions = <<x>>

\* Start() has returned and every sandbox instance there is was created during it.
StartedFresh ==
    /\ result.op = "Start" /\ result.done
    /\ \A i \in 1..Len(insts) : \E k \in 1..Len(trace) : trace[k].ev = "new" /\ trace[k].inst = i

\* The calls of the start export of an instance of the plugin record p during the
\* operation under way.
StartCalls(p) == {k \in 1..Len(trace) : trace[k].ev = "enter" /\ trace[k].fn = "start" /\ trace[k].p = p}

IsValidBundle(b) == b.extract /\ b.yaml = "ok" /\ b.wasm

\* C18: a Load over the bundles bs does not crash, and leaves the registry that a Load over
\* the valid bundles of bs alone leaves: a failing bundle adds nothing and every valid
\* sibling is registered.
C18_BundleFailureContained ==
    [][\A bs \in BundleSeqs :
          Load(LocalPath, bs) =>
              /\ ~result'.panicked
              /\ result'.done
              /\ Registry' = LoadResult(Registry, SelectSeq(bs, IsValidBundle)).reg]_vars

\* C19: what the host function CallExtension returns to the calling export is 0 or a
\* reference to the response bytes of the extension, never the reference it was given as
\* input: 0 when the extension is unknown, the call failed or the export returned no bytes.
C19_HostReturnsZeroOrResponse ==
    \A k \in 1..Len(trace) :
        trace[k].ev = "hostret" => (trace[k].out = "0" \/ trace[k].out \in Bytes)

\* The arguments GetExtensionsForExtensionPoint is called with: the ids of the registry and
\* one that is nowhere registered; version lists of up to two strings, the empty string
\* among them.
QueryIds == EpIds \cup {"z"}
VersionLists == UNION {[1..n -> Versions \cup {<<>>}] : n \in 0..2}

\* C20: with a one-element version list that is valid semver, GetExtensionsForExtensionPoint
\* returns the extensions of the extension point of that id whose Version equals it; with a
\* two-element list it returns the version-invalid error unless both elements are valid
\* semver, the empty string as second element included; with an invalid first element it
\* returns that error whether or not the extension point exists.
C20_VersionFilter ==
    \A epoint \in QueryIds : \A versions \in VersionLists :
        LET r == GetExtensionsForExtensionPoint(epoint, versions)
            eps == IF epoint \in EpIds THEN extensionPoints[epoint] ELSE <<>>
        IN  /\ (Len(versions) = 1 /\ isSemverValid(versions[1])) =>
                    \A k \in 1..Len(eps) :
                        (eps[k].Version = versions[1]
                            /\ \A j \in 1..(k - 1) : eps[j].Version # versions[1])
                        => r = Found(eps[k].Extensions)
            /\ (Len(versions) = 2 /\ ~(isSemverValid(versions[1]) /\ isSemverValid(versions[2])))
                    => r.err = VersionInvalid
            /\ (Len(versions) >= 1 /\ ~isSemverValid(versions[1])) => r.err = VersionInvalid

\* The extension points registered under an id; none under an id the map does not hold.
EpsOf(epoint) == IF epoint \in EpIds THEN extensionPoints[epoint] ELSE <<>>

C22_RangeReturnsNothing ==
    \A epoint \in QueryIds : \A versions \in VersionLists :
        (Len(versions) = 2 /\ isSemverValid(versions[1]) /\ isSemverValid(versions[2]))
            => GetExtensionsForExtensionPoint(epoint, versions) = Failed(NotFound)

\* C22 witness: an extension point holds extensions that the query for exactly its version
\* returns and the query for a range that contains its version does not.
C22_Witness ==
    \E epoint \in EpIds : \E k \in 1..Len(extensionPoints[epoint]) :
        LET ep == extensionPoints[epoint][k]
        IN  /\ ep.Extensions # <<>> /\ ep.Version = v100
            /\ GetExtensionsForExtensionPoint(epoint, <<v100>>).exts # <<>>
            /\ GetExtensionsForExtensionPoint(epoint, <<v100, v200>>).exts = <<>>

\* The string has exactly two dots and each of its three components is non-empty and made
\* of the characters 0-9 only.
IsPlainSemver(s) ==
    LET dots == {i \in 1..Len(s) : s[i] = "."}
    IN  /\ Cardinality(dots) = 2
        /\ \A i \in 1..Len(s) : s[i] \in AsciiDigits \cup {"."}
        /\ s # <<>> /\ s[1] # "." /\ s[Len(s)] # "."
        /\ \A i \in 1..(Len(s) - 1) : ~(s[i] = "." /\ s[i + 1] = ".")

\* C23: isSemverValid(s) is true if and only if s has exactly two dots and three non-empty
\* components of the characters 0-9 only, for every string over the alphabet.
C23_SemverValidator ==
    semver.valid # "unchecked" => (semver.valid = "true") = IsPlainSemver(semver.s)

\* The manifests a plugin record can have come from.
KnownManifests == Manifests \cup {b.m : b \in Bundles \cup OrderedBundles}

\* The extension records made for the plugin record p, in the order they were made.
RecordsOf(p) == SelectSeq([k \in 1..Len(exts) |-> k], LAMBDA k : exts[k].Plugin = p)

\* The extension points the plugin record p has under the id, in the order of the list.
PointsOf(p, id) == SelectSeq(extensionPoints[id], LAMBDA ep : ep.Plugin = p)

\* C24: the extension records and extension points of one manifest are in declaration
\* order, and each extension point's Extensions list holds its extensions in the order
\* their plugins were added and, within a plugin, in declaration order; extension points
\* of plugins stand under an id in the order the plugins were added.
C24_Ordering ==
    /\ \A i \in PluginIds : \A v \in Versions :
        LET p == plugins[i][v]
        IN  p # 0 =>
                \E m \in KnownManifests :
                    /\ m.Id = i /\ m.Version = v
                    /\ [k \in 1..Len(RecordsOf(p)) |-> exts[RecordsOf(p)[k]].Id]
                            = [k \in 1..Len(m.Extensions) |-> m.Extensions[k].Id]
                    /\ \A id \in EpIds :
                        [k \in 1..Len(PointsOf(p, id)) |-> PointsOf(p, id)[k].Version]
                            = LET d == SelectSeq(m.ExtensionPoints, LAMBDA ep : ep.Id = id)
                              IN  [k \in 1..Len(d) |-> d[k].Version]
    /\ \A id \in EpIds : \A k \in 1..Len(extensionPoints[id]) :
        LET l == extensionPoints[id][k].Extensions
        IN  /\ \A a \in 1..Len(l) : \A b \in 1..Len(l) : a < b => l[a] < l[b]
            /\ \A j \in 1..Len(extensionPoints[id]) :
                (j < k /\ extensionPoints[id][j].Plugin # 0 /\ extensionPoints[id][k].Plugin # 0)
                    => extensionPoints[id][j].Plugin <= extensionPoints[id][k].Plugin

\* C24 witness: an extension point holds the extension of one plugin and then, in the order
\* of their declaration, two extensions of a plugin added later, which declares them and
\* two extension points under one id.
C24_Witness ==
    \E id \in EpIds :
        /\ Len(extensionPoints[id]) = 3
        /\ Len(extensionPoints[id][1].Extensions) = 3
        /\ LET l == extensionPoints[id][1].Extensions
           IN  /\ exts[l[1]].Plugin = 1
               /\ exts[l[2]].Plugin = 2 /\ exts[l[3]].Plugin = 2
               /\ exts[l[2]].Id = "e2" /\ exts[l[3]].Id = "e1"
        /\ extensionPoints[id][2].Version = v200 /\ extensionPoints[id][3].Version = v100

\* The extension points the host registered under the id
HostPoints(id) == PointsOf(0, id)

\* The goroutines whose RegisterHostExtensionPoint(id, ...) has returned
Returned(id) == {t \in Threads : threads[t].pc = "done" /\ threads[t].id = id}

\* C26: when goroutines run RegisterHostExtensionPoint beside the control thread's addPlugin,
\* the process does not die and, once every call has returned, the registry is the one some
\* sequential order of the calls gives: each call's extension point stands under its id
\* and every plugin has the extension points its manifest declares.
C26_Serializable ==
    /\ ~result.panicked
    /\ (\A t \in Threads : threads[t].pc # "append") =>
            /\ \A id \in EpIds : Len(HostPoints(id)) = Cardinality(Returned(id))
            /\ \A q \in 1..Len(plugs) :
                    \E m \in Manifests : \A id \in EpIds :
                        Len(PointsOf(q, id))
                            = Len(SelectSeq(m.ExtensionPoints, LAMBDA ep : ep.Id = id))

\* C27: when addPlugin has replaced a plugin record that held an instance, a call that
\* starts after the replacement enters no export of that instance, and the replaced record
\* holds the instance no longer once a later public operation is over.
C27_NoDanglingInstance ==
    [][(result.op = "addPlugin" /\ result.pre # 0) =>
            /\ \A k \in 1..Len(trace') : trace'[k].ev = "enter" => trace'[k].inst # result.pre
            /\ Idle' => plugs'[result.owner].Plugin # result.pre]_vars

\* C28: every instance is created with the host-function table of the engine, the
\* application's host functions followed by the built-in ones, whether Start, a
\* CallExtensionFunc of the application or the host function CallExtension instantiates it.
C28_SameHostFuncs == \A i \in 1..Len(insts) : insts[i].hostFuncs = hfs

\* C29: nothing an engine answers comes from a plugin added to another engine of the
\* process: a CallExtensionFunc finds, instantiates and enters only plugins the engine
\* itself has added and, when it has added none for the id, returns without ending the
\* process; the resolved index and the extension points of the engine hold only extensions
\* of its own plugins.
C29_EnginesIsolated ==
    /\ result.op = "CallExtensionFunc" =>
            /\ result.owner \notin peer.records
            /\ \A k \in 1..Len(trace) : trace[k].p \notin peer.records
            /\ result.owner = 0 => result.done /\ ~result.panicked
    /\ \A id \in ExtIds : extensions[id] # 0 => exts[extensions[id]].Plugin \notin peer.records
    /\ \A i \in EpIds : \A k \in 1..Len(extensionPoints[i]) :
            /\ extensionPoints[i][k].Plugin \notin peer.records
            /\ \A x \in Range(extensionPoints[i][k].Extensions) :
                    exts[x].Plugin \notin peer.records

\* The instance events of the trace that CallExtensionFunc made (lines 997-1000): the ones
\* of a CallExtensionFunc of the application, and under Start the ones below the loop.
LazyNews == {k \in 1..Len(trace) : /\ trace[k].ev = "new"
                                   /\ (result.op = "CallExtensionFunc" \/ trace[k].depth > 1)}

\* C30: a plugin that CallExtensionFunc instantiates had no instance and was not
\* instantiated earlier in the same public operation, so the nested instantiations of one
\* operation are of different plugins and no more than there are plugins; and a
\* CallExtension made by an export for a plugin that holds an instance, one that is still
\* in its start included, creates no instance.
C30_NestedLazyOnce ==
    /\ \A k \in LazyNews :
            /\ \A j \in 1..(k - 1) : trace[j].ev = "new" => trace[j].p # trace[k].p
            /\ \A j \in 1..(k - 1) :
                    (trace[j].ev = "hostcall" /\ trace[j].p = trace[k].p) => trace[j].inst = 0
    /\ Cardinality(LazyNews) <= Len(plugs)
    /\ \A j \in 1..Len(trace) :
            (trace[j].ev = "hostcall" /\ trace[j].inst # 0 /\ j < Len(trace))
                => trace[j + 1].ev \notin {"new", "newfail"}

\* C30 witness: the start export of a plugin that CallExtensionFunc has just instantiated
\* calls CallExtension for an extension of that plugin, and the export is entered on the
\* instance that is starting.
C30_Witness ==
    \E k \in LazyNews : \E j \in (k + 1)..(Len(trace) - 1) :
        /\ trace[j].ev = "hostcall"
        /\ trace[j].p = trace[k].p
        /\ trace[j].inst = trace[k].inst
        /\ insts[trace[k].inst].start = "running"
        /\ trace[j + 1].ev = "enter" /\ trace[j + 1].inst = trace[k].inst
        /\ \A i \in 1..Len(trace) : trace[i].ev = "new" => i = k

\* No record of the pending queue is marked Resolved and no Extensions list holds a record
\* twice, in the registry made of the given extension records, extension points and queue.
CleanQueues(xs, eps, pending) ==
    /\ \A k \in 1..Len(pending) : ~xs[pending[k]].Resolved
    /\ \A i \in EpIds : \A k \in 1..Len(eps[i]) :
            LET l == eps[i][k].Extensions
            IN  \A a \in 1..Len(l) : \A b \in 1..Len(l) : l[a] = l[b] => a = b

\* C31: after any sequence of addPlugin, Load and RegisterHostExtensionPoint, and after one
\* more resolve pass on top of it, no extension record marked Resolved is in the pending
\* queue and no extension record is twice in the Extensions list of one extension point.
C31_NoRequeueNoReattach ==
    /\ CleanQueues(exts, extensionPoints, unresolved)
    /\ LET r == resolve(exts, extensionPoints, extensions, unresolved)
       IN  CleanQueues(r.exts, r.extensionPoints, r.leftover)

\* C31 witness: one pass has attached an extension to two extension points registered
\* under its id, once to each, an extension added while its id had no extension point is
\* neither Resolved nor pending, and the queue is empty.
C31_Witness ==
    /\ unresolved = <<>>
    /\ \E x \in 1..Len(exts) : \E y \in 1..Len(exts) :
        LET eps == extensionPoints[exts[x].ExtensionPoint]
        IN  /\ exts[x].Resolved
            /\ Len(eps) = 2
            /\ \A k \in 1..2 : Cardinality({a \in 1..Len(eps[k].Extensions) :
                                                eps[k].Extensions[a] = x}) = 1
            /\ ~exts[y].Resolved
            /\ \A i \in EpIds : \A k \in 1..Len(extensionPoints[i]) :
                    y \notin Range(extensionPoints[i][k].Extensions)

\* The version lists the application queries with: none, a valid version, an invalid one,
\* and a range.
AppVersionLists == {<<>>, <<v100>>, <<vBad>>, <<v100, v200>>}

\* The host application adds plugins, calls extensions and queries the registry; the
\* exports call back.
NextQueries ==
    \/ \E m \in Manifests : addPlugin(m)
    \/ \E id \in ExtIds : \E data \in Bytes : \E ok \in BOOLEAN : AppCallExtensionFunc(id, data, ok)
    \/ \E id \in ExtIds : \E data \in Bytes : \E ok \in BOOLEAN : CallExtension(id, data, ok)
    \/ \E out \in Bytes \cup {NoBytes, CallErr} : WasmReturn(out)
    \/ \E eid \in ExtIds : AppGetExtensionForId(eid)
    \/ AppGetPlugins
    \/ \E epoint \in QueryIds : \E versions \in AppVersionLists :
            AppGetExtensionsForExtensionPoint(epoint, versions)

SpecQueries == Init /\ [][NextQueries]_vars

\* A step of CallExtensionFunc, of an export it has entered, or of a projection.
CallOrQueryStep ==
    \/ \E id \in ExtIds : \E data \in Bytes : \E ok \in BOOLEAN :
            AppCallExtensionFunc(id, data, ok) \/ CallExtension(id, data, ok)
    \/ \E out \in Bytes \cup {NoBytes, CallErr} : WasmReturn(out)
    \/ \E eid \in ExtIds : AppGetExtensionForId(eid)
    \/ AppGetPlugins
    \/ \E epoint \in QueryIds : \E versions \in AppVersionLists :
            AppGetExtensionsForExtensionPoint(epoint, versions)

\* The step leaves the indices and the queue as they were, and of the plugin records it
\* changes nothing but the instance handle of the plugin that the CallExtensionFunc on top
\* of the stack has found in the call index and instantiated.
OnlyOwnerHandle ==
    /\ plugins' = plugins
    /\ extensionPoints' = extensionPoints
    /\ extensions' = extensions
    /\ unresolved' = unresolved
    /\ callableExtensions' = callableExtensions
    /\ exts' = exts
    /\ Len(plugs') = Len(plugs)
    /\ \A p \in 1..Len(plugs) :
            /\ plugs'[p].Resolved = plugs[p].Resolved
            /\ plugs'[p].LoadOnStart = plugs[p].LoadOnStart
            /\ plugs'[p].Plugin # plugs[p].Plugin =>
                    /\ plugs[p].Plugin = 0
                    /\ Len(insts') = Len(insts) + 1
                    /\ plugs'[p].Plugin = Len(insts')
                    /\ Len(stack') >= 2
                    /\ LET f == stack'[Len(stack') - 1]
                       IN  f.k = "CEF" /\ f.p = p /\ callableExtensions[f.id] = p

\* C32: CallExtensionFunc, whether the export returns bytes or an error, and the
\* projections GetExtensionForId, GetPlugins and GetExtensionsForExtensionPoint leave the
\* plugins index, the extension points with their Extensions lists, the resolved index,
\* the pending queue and the call index unchanged; CallExtensionFunc changes nothing but
\* the instance handle of the owner plugin it instantiates.
C32_CallsAndQueriesReadOnly == [][OnlyOwnerHandle \/ ~CallOrQueryStep]_vars

\* C32 witness: a CallExtensionFunc that instantiated the owner of its extension has ended
\* with the error of the export, in a registry that holds an attached extension, and another
\* has returned bytes.
C32_Witness ==
    /\ result.op = "CallExtensionFunc" /\ result.done
    /\ result.err = CallErr
    /\ result.owner # 0 /\ result.pre = 0 /\ plugs[result.owner].Plugin # 0
    /\ \E x \in 1..Len(exts) : exts[x].Resolved /\ Attached(x)

\* The word http in every letter case.
HttpPrefixes == {<<a, b, c, d>> : a \in {"h", "H"}, b \in {"t", "T"}, c \in {"t", "T"}, d \in {"p", "P"}}

====
